---- MODULE Spec2Model ----
(***************************************************************************)
(* Model of scripts/lookup.py: the cached catalog fetch (fetch_models),    *)
(* the identifier translation (to_native_id), the matcher (score_match,    *)
(* search), the provider filter (list_provider) and the CLI driver (main). *)
(*                                                                         *)
(* Strings are sequences of one-character strings, so that partition,      *)
(* startswith, substring containment, lower() and the regular-expression   *)
(* substitution are computed character by character as Python does.        *)
(***************************************************************************)
EXTENDS Integers, Sequences, FiniteSets, TLC

VARIABLES
    cache,        \* the cache file: [exists, content, mtime]
    now,          \* wall clock, seconds (time.time())
    ticks,        \* number of clock advances so far
    lastFetched,  \* history: outcome of the most recent successful remote fetch
    inv,          \* history: what the most recent invocation of main did
    pc,           \* race: position of each concurrent invocation
    off,          \* race: file offset of each invocation's open file
    pdata,        \* race: the catalog each invocation fetched
    lastWriter,   \* race: the invocation that issued the most recent write
    idIn,         \* to_native_id: the identifier under translation
    idOut,        \* to_native_id: results of successive applications
    catalog,      \* matcher: the catalog handed to search / list_provider
    query,        \* matcher: the query (terms or provider key)
    found         \* matcher: what search / list_provider returned

vars == <<cache, now, ticks, lastFetched, inv, pc, off, pdata, lastWriter,
          idIn, idOut, catalog, query, found>>

cacheVars == <<cache, now, ticks, lastFetched, inv>>
raceVars == <<pc, off, pdata, lastWriter>>
nativeVars == <<idIn, idOut>>
matchVars == <<catalog, query, found>>

----------------------------------------------------------------------------
(* Python string primitives on sequences of characters.                    *)

Digits == {"1", "2", "3", "4", "5", "6", "7", "8", "9", "0"}

\* str.lower() on one character (the upper-case letters the model uses).
LowerChar(c) ==
    CASE c = "G" -> "g"
      [] c = "F" -> "f"
      [] c = "X" -> "x"
      [] OTHER -> c

Lower(s) == [i \in 1..Len(s) |-> LowerChar(s[i])]

\* str.find: index of the first occurrence of character c in s, 0 if none.
RECURSIVE FindFrom(_, _, _)
FindFrom(s, c, i) ==
    IF i > Len(s) THEN 0
    ELSE IF s[i] = c THEN i
    ELSE FindFrom(s, c, i + 1)

\* The variant of partition that puts a separator-less string in the tail.
PartitionKeepTail(s, c) ==
    LET i == FindFrom(s, c, 1) IN
    IF i = 0 THEN << <<>>, <<>>, s >>
    ELSE << SubSeq(s, 1, i - 1), <<c>>, SubSeq(s, i + 1, Len(s)) >>

\* str.partition(c): <<before, separator, after>>; when c does not occur
\* the whole string is the first component and the other two are empty.
Partition(s, c) ==
    LET i == FindFrom(s, c, 1) IN
    IF i = 0 THEN << s, <<>>, <<>> >>
    ELSE << SubSeq(s, 1, i - 1), <<c>>, SubSeq(s, i + 1, Len(s)) >>

\* str.startswith
StartsWith(s, p) ==
    /\ Len(p) <= Len(s)
    /\ SubSeq(s, 1, Len(p)) = p

\* The substring test `t in s`.
Contains(s, t) ==
    \E i \in 1..(Len(s) - Len(t) + 1) : SubSeq(s, i, i + Len(t) - 1) = t

----------------------------------------------------------------------------
(* to_native_id                                                            *)

Google == <<"g", "o", "o", "g", "l", "e">>
OpenAI == <<"o", "p", "e", "n", "a", "i">>
Anthropic == <<"a", "n", "t", "h", "r", "o", "p", "i", "c">>
DeepSeek == <<"d", "e", "e", "p", "s", "e", "e", "k">>
MetaLlama == <<"m", "e", "t", "a", "-", "l", "l", "a", "m", "a">>
MistralAI == <<"m", "i", "s", "t", "r", "a", "l", "a", "i">>
Cohere == <<"c", "o", "h", "e", "r", "e">>
Qwen == <<"q", "w", "e", "n">>
XAI == <<"x", "-", "a", "i">>
Slash == <<"/">>

\* The table of known provider keys and their identifier prefixes.
PROVIDER_PREFIXES ==
    (Google :> Google \o Slash) @@ (OpenAI :> OpenAI \o Slash)
    @@ (Anthropic :> Anthropic \o Slash) @@ (DeepSeek :> DeepSeek \o Slash)
    @@ (MetaLlama :> MetaLlama \o Slash) @@ (MistralAI :> MistralAI \o Slash)
    @@ (Cohere :> Cohere \o Slash) @@ (Qwen :> Qwen \o Slash)
    @@ (XAI :> XAI \o Slash)

\* Last index of the maximal run of digits that starts at i (s[i] a digit).
RECURSIVE DigitRunEnd(_, _)
DigitRunEnd(s, i) ==
    IF i + 1 <= Len(s) /\ s[i + 1] \in Digits THEN DigitRunEnd(s, i + 1)
    ELSE i

\* Where a match of (\d+)\.(\d+) that starts at i ends, 0 if none starts
\* there: \d+ is greedy, and giving digits back cannot help because the
\* character after a shorter run is a digit, not the dot.
MatchEnd(s, i) ==
    IF s[i] \notin Digits THEN 0
    ELSE LET q == DigitRunEnd(s, i) IN
         IF q + 2 <= Len(s) /\ s[q + 1] = "." /\ s[q + 2] \in Digits
         THEN DigitRunEnd(s, q + 2)
         ELSE 0

\* re.sub(r"(\d+)\.(\d+)", r"\1-\2", s) from position i: leftmost match,
\* replaced, scanning resumes after the end of the match (matches do not
\* overlap).
RECURSIVE ReSubFrom(_, _)
ReSubFrom(s, i) ==
    IF i > Len(s) THEN <<>>
    ELSE LET e == MatchEnd(s, i) IN
         IF e = 0 THEN <<s[i]>> \o ReSubFrom(s, i + 1)
         ELSE LET q == DigitRunEnd(s, i) IN
              SubSeq(s, i, q) \o <<"-">> \o SubSeq(s, q + 2, e)
                  \o ReSubFrom(s, e + 1)

DotsToDashes(s) == ReSubFrom(s, 1)

\* model_part.split(":")[0]
BeforeColon(s) == Partition(s, ":")[1]

to_native_id(openrouter_id) ==
    LET parts == Partition(openrouter_id, "/")
        provider == parts[1]
        model_part == parts[3]
    IN  IF provider = Anthropic
        THEN BeforeColon(DotsToDashes(model_part))
        ELSE model_part

----------------------------------------------------------------------------
(* score_match, search, list_provider                                      *)

\* A model record is [id, name, created]; a record without a name has the
\* empty name and one without a timestamp has created = 0, the defaults of
\* model.get("name", "") and model.get("created", 0).

FreeMarker == <<":", "f", "r", "e", "e">>

\* Number of points the terms earn: 10 per term found in the lower-cased
\* id, 5 per term found in the lower-cased name.
RECURSIVE TermPoints(_, _, _)
TermPoints(query_terms, model_id, model_name) ==
    IF query_terms = <<>> THEN 0
    ELSE LET term == Lower(Head(query_terms)) IN
         (IF Contains(model_id, term) THEN 10 ELSE 0)
         + (IF Contains(model_name, term) THEN 5 ELSE 0)
         + TermPoints(Tail(query_terms), model_id, model_name)

\* The score as the pair <<whole, created>> that stands for the number
\* whole + created / 10^12: the recency boost is kept as its numerator.
score_match(query_terms, model) ==
    LET model_id == Lower(model.id)
        model_name == Lower(model.name)
        points == TermPoints(query_terms, model_id, model_name)
        penalty == IF Contains(model_id, FreeMarker) THEN 3 ELSE 0
    IN  << points - penalty, model.created >>

\* a > b for two scores; the timestamps of the model stay below 10^12, so
\* the boost is below 1 and the comparison is lexicographic.
ScoreGT(a, b) == a[1] > b[1] \/ (a[1] = b[1] /\ a[2] > b[2])

ScorePositive(a) == ScoreGT(a, <<0, 0>>)

\* list.sort(key=score, reverse=True) as insertion from the left: an entry
\* goes after every entry whose score is not smaller, which is the stable
\* descending order Python's sort produces.
RECURSIVE InsertDesc(_, _)
InsertDesc(sorted, e) ==
    IF sorted = <<>> THEN <<e>>
    ELSE IF ScoreGT(e[1], Head(sorted)[1]) THEN <<e>> \o sorted
    ELSE <<Head(sorted)>> \o InsertDesc(Tail(sorted), e)

RECURSIVE SortDesc(_, _)
SortDesc(sorted, rest) ==
    IF rest = <<>> THEN sorted
    ELSE SortDesc(InsertDesc(sorted, Head(rest)), Tail(rest))

TopN == 8

\* scored[:n]
Take(s, n) == SubSeq(s, 1, IF Len(s) < n THEN Len(s) ELSE n)

\* search that slices one entry too many.
searchOffByOne(query_terms, models) ==
    LET scored == [i \in 1..Len(models) |->
                      <<score_match(query_terms, models[i]), models[i]>>]
        positive == SelectSeq(scored, LAMBDA x : ScorePositive(x[1]))
        ranked == SortDesc(<<>>, positive)
        top == Take(ranked, TopN + 1)
    IN  [i \in 1..Len(top) |-> top[i][2]]

search(query_terms, models) ==
    LET scored == [i \in 1..Len(models) |->
                      <<score_match(query_terms, models[i]), models[i]>>]
        positive == SelectSeq(scored, LAMBDA x : ScorePositive(x[1]))
        ranked == SortDesc(<<>>, positive)
        top == Take(ranked, TopN)
    IN  [i \in 1..Len(top) |-> top[i][2]]

\* list_provider that tests the bare key instead of the prefix.
listProviderBareKey(provider, models) ==
    SelectSeq(models, LAMBDA m : StartsWith(m.id, provider))

list_provider(provider, models) ==
    LET prefix == IF provider \in DOMAIN PROVIDER_PREFIXES
                  THEN PROVIDER_PREFIXES[provider]
                  ELSE provider \o Slash
    IN  SelectSeq(models, LAMBDA m : StartsWith(m.id, prefix))

----------------------------------------------------------------------------
(* The cache file and fetch_models                                         *)

CACHE_TTL == 3600

NoModel == [id |-> <<>>, name |-> <<>>, created |-> 0]

\* The cache file holds JSON text, modelled as a sequence of tokens: the
\* brackets of the array and one token per model object.
LBracket == [t |-> "[", m |-> NoModel]
RBracket == [t |-> "]", m |-> NoModel]
Obj(m) == [t |-> "obj", m |-> m]

\* json.dump(models, f): the text written for a list of model objects.
Serialize(models) ==
    <<LBracket>> \o [i \in 1..Len(models) |-> Obj(models[i])] \o <<RBracket>>

\* json.load(f): the list the text denotes; text that is not one complete
\* array (the empty file, a truncated or overlong text) fails to parse.
Parse(text) ==
    IF /\ Len(text) >= 2
       /\ text[1] = LBracket
       /\ text[Len(text)] = RBracket
       /\ \A i \in 2..(Len(text) - 1) : text[i].t = "obj"
    THEN [ok |-> TRUE, value |-> [i \in 1..(Len(text) - 2) |-> text[i + 1].m]]
    ELSE [ok |-> FALSE, value |-> <<>>]

NoCache == [exists |-> FALSE, content |-> <<>>, mtime |-> 0]

\* os.path.exists(CACHE_PATH) and age < CACHE_TTL
Fresh(c, t) == c.exists /\ t - c.mtime < CACHE_TTL

\* What the remote endpoint can answer to the GET:
\*   ok            a 2xx JSON object with a "data" array
\*   network_error no answer (refused, DNS, the 10 s timeout)
\*   http_error    a non-2xx status
\*   bad_json      a 2xx body that is not JSON
\*   no_data       a 2xx JSON object without "data"
FailureKinds == {"network_error", "http_error", "bad_json", "no_data"}

NoResponse == [kind |-> "none", data |-> <<>>]

\* fetch_models that serves the cached content when the GET fails.
fetch_models_fallback(c, t, resp) ==
    IF Fresh(c, t)
    THEN LET p == Parse(c.content) IN
         [http |-> 0, raised |-> ~p.ok, ret |-> p.value, cache |-> c,
          fetched |-> FALSE]
    ELSE IF resp.kind = "ok"
    THEN [http |-> 1, raised |-> FALSE, ret |-> resp.data,
          cache |-> [exists |-> TRUE, content |-> Serialize(resp.data),
                     mtime |-> t],
          fetched |-> TRUE]
    ELSE LET p == Parse(c.content) IN
         [http |-> 1, raised |-> ~(c.exists /\ p.ok), ret |-> p.value,
          cache |-> c, fetched |-> FALSE]

\* One call of fetch_models with the cache file c at time t, the endpoint
\* answering resp if asked: the number of GETs issued, whether the call
\* raised, the list returned, the cache file afterwards and whether a
\* remote fetch succeeded.
fetch_models(c, t, resp) ==
    IF Fresh(c, t)
    THEN \* lines 46-47: json.load of the file; a parse failure propagates
         LET p == Parse(c.content) IN
         [http |-> 0, raised |-> ~p.ok, ret |-> p.value, cache |-> c,
          fetched |-> FALSE]
    ELSE IF resp.kind \in {"network_error", "http_error", "bad_json"}
    THEN \* lines 50-51 raise before the file is opened
         [http |-> 1, raised |-> TRUE, ret |-> <<>>, cache |-> c,
          fetched |-> FALSE]
    ELSE IF resp.kind = "no_data"
    THEN \* line 53 has opened the file for writing, which truncates it,
         \* when data["data"] raises on line 54
         [http |-> 1, raised |-> TRUE, ret |-> <<>>,
          cache |-> [exists |-> TRUE, content |-> <<>>, mtime |-> t],
          fetched |-> FALSE]
    ELSE [http |-> 1, raised |-> FALSE, ret |-> resp.data,
          cache |-> [exists |-> TRUE, content |-> Serialize(resp.data),
                     mtime |-> t],
          fetched |-> TRUE]

----------------------------------------------------------------------------
(* format_model and main                                                   *)

ListFlag == <<"-", "-", "l", "i", "s", "t">>

\* The lines of format_model that identify the model (name, native id,
\* aggregator id); the context, pricing and capability lines are not
\* modelled.
format_model(model) ==
    [Name |-> model.name, NativeID |-> to_native_id(model.id),
     OpenRouter |-> model.id]

\* The line list mode prints for one model.
ListLine(m) == [Name |-> m.name, NativeID |-> to_native_id(m.id),
                OpenRouter |-> <<>>]

\* List mode that forgets to exit with 1 on an empty listing.
main_list_exit0(argv, models) ==
    LET provider == IF Len(argv) > 1 THEN argv[2] ELSE Google
        results == list_provider(provider, models)
    IN  IF results = <<>>
        THEN [exit |-> 0, out |-> "no_provider", results |-> results,
              lines |-> <<>>]
        ELSE [exit |-> 0, out |-> "list", results |-> results,
              lines |-> [i \in 1..Len(results) |-> ListLine(results[i])]]

\* Lines 166-176: list mode.
main_list(argv, models) ==
    LET provider == IF Len(argv) > 1 THEN argv[2] ELSE Google
        results == list_provider(provider, models)
    IN  IF results = <<>>
        THEN [exit |-> 1, out |-> "no_provider", results |-> results,
              lines |-> <<>>]
        ELSE [exit |-> 0, out |-> "list", results |-> results,
              lines |-> [i \in 1..Len(results) |-> ListLine(results[i])]]

\* Lines 178-188: search mode.
main_search(argv, models) ==
    LET results == search(argv, models) IN
    IF results = <<>>
    THEN [exit |-> 1, out |-> "no_match", results |-> results, lines |-> <<>>]
    ELSE [exit |-> 0, out |-> "top", results |-> results,
          lines |-> [i \in 1..Len(results) |-> format_model(results[i])]]

\* One run of the program with arguments argv (sys.argv[1:]): what it did
\* and the cache file it leaves.  An uncaught exception ends the process
\* with a traceback and status 1.
main(argv, c, t, resp) ==
    LET base == [argv |-> argv, ran |-> TRUE, before |-> c,
                 fresh |-> Fresh(c, t)]
    IN
    IF argv = <<>>
    THEN base @@ [resp |-> NoResponse, called |-> FALSE, http |-> 0, raised |-> FALSE,
                  fetched |-> FALSE, models |-> <<>>, cache |-> c,
                  exit |-> 1, out |-> "usage", results |-> <<>>,
                  lines |-> <<>>]
    ELSE LET f == fetch_models(c, t, resp)
             fr == [resp |-> IF f.http > 0 THEN resp ELSE NoResponse,
                    called |-> TRUE, http |-> f.http, raised |-> f.raised,
                    fetched |-> f.fetched, models |-> f.ret,
                    cache |-> f.cache]
         IN  IF f.raised
             THEN base @@ fr @@ [exit |-> 1, out |-> "traceback",
                                 results |-> <<>>, lines |-> <<>>]
             ELSE IF argv[1] = ListFlag
             THEN base @@ fr @@ main_list(argv, f.ret)
             ELSE base @@ fr @@ main_search(argv, f.ret)

----------------------------------------------------------------------------
(* Sequential runs of the program against one cache file                   *)

MaxTicks == 2

\* The clock advances by a second or by a second less than the TTL, so
\* that ages just below, at and above the TTL all occur.
TickSteps == {1, CACHE_TTL - 1}

GemFlash == [id |-> Google \o Slash \o <<"g", "e", "m">>,
             name |-> <<"G", "e", "m", " ", "F", "l">>, created |-> 2]
Sonnet == [id |-> Anthropic \o Slash \o <<"c", "3", ".", "5", ":", "x">>,
           name |-> <<"c">>, created |-> 1]
FreeFl == [id |-> XAI \o Slash \o <<"f", "l">> \o FreeMarker,
           name |-> <<>>, created |-> 0]
OldQ == [id |-> <<"z", "z", "/", "q">>, name |-> <<>>, created |-> 0]
NewN == [id |-> <<"z", "z", "/", "n">>, name |-> <<>>, created |-> 1]

\* The catalogs the endpoint may serve.
RemoteCatalogs ==
    { <<GemFlash, Sonnet, FreeFl>>, <<OldQ>>, <<GemFlash, NewN>>, <<>> }

Responses ==
    [kind : {"ok"}, data : RemoteCatalogs]
    \cup [kind : FailureKinds, data : {<<>>}]

\* The command lines tried (sys.argv[1:]).
Argvs ==
    { <<>>,
      <<ListFlag>>, <<ListFlag, Google>>, <<ListFlag, Qwen>>,
      <<ListFlag, <<"z", "z">> >>,
      << <<"g", "e", "m">> >>, << <<"F", "l">>, <<"q">> >>, << <<"w">> >> }

NoFetch == [some |-> FALSE, data |-> <<>>]

NoRun == [argv |-> <<>>, ran |-> FALSE, before |-> NoCache, fresh |-> FALSE,
          resp |-> NoResponse, called |-> FALSE, http |-> 0,
          raised |-> FALSE, fetched |-> FALSE, models |-> <<>>,
          cache |-> NoCache, exit |-> 0, out |-> "none", results |-> <<>>,
          lines |-> <<>>]

Procs == {1, 2}

IdleCache ==
    /\ cache = NoCache
    /\ now = 0
    /\ ticks = 0
    /\ lastFetched = NoFetch
    /\ inv = NoRun

IdleRace ==
    /\ pc = [p \in Procs |-> "idle"]
    /\ off = [p \in Procs |-> 0]
    /\ pdata = [p \in Procs |-> NoResponse]
    /\ lastWriter = 0

IdleNative ==
    /\ idIn = <<>>
    /\ idOut = <<>>

IdleMatch ==
    /\ catalog = <<>>
    /\ query = [mode |-> "none", terms |-> <<>>, provider |-> <<>>]
    /\ found = [done |-> FALSE, results |-> <<>>]

\* The tool installed and never run: no cache file.
Init == IdleCache /\ IdleRace /\ IdleNative /\ IdleMatch

\* Time passes between two runs.
Tick ==
    /\ ticks < MaxTicks
    /\ \E d \in TickSteps : now' = now + d
    /\ ticks' = ticks + 1
    /\ UNCHANGED <<cache, lastFetched, inv>>
    /\ UNCHANGED <<raceVars, nativeVars, matchVars>>

\* One run of the program, start to exit.
RunMain ==
    /\ \E argv \in Argvs, resp \in Responses :
          LET r == main(argv, cache, now, resp) IN
          /\ inv' = r
          /\ cache' = r.cache
          /\ lastFetched' = IF r.fetched
                            THEN [some |-> TRUE, data |-> resp.data]
                            ELSE lastFetched
    /\ UNCHANGED <<now, ticks>>
    /\ UNCHANGED <<raceVars, nativeVars, matchVars>>

Next == Tick \/ RunMain

Spec == Init /\ [][Next]_vars

----------------------------------------------------------------------------
(* Properties of sequential runs                                           *)

\* Whether some term of the query occurs, case-folded, in the id or in the
\* name of the model.
MatchesSomeTerm(terms, m) ==
    \E i \in 1..Len(terms) :
        \/ Contains(Lower(m.id), Lower(terms[i]))
        \/ Contains(Lower(m.name), Lower(terms[i]))

SearchRun == inv.ran /\ inv.called /\ ~inv.raised /\ inv.argv[1] # ListFlag
ListRun == inv.ran /\ inv.called /\ ~inv.raised /\ inv.argv[1] = ListFlag

\* C1: a call of fetch_models that finds the cache file present and younger
\* than 3600 seconds issues no HTTP request, returns exactly the content of
\* the cache file, and leaves the file (content and modification time) as
\* it was.
C1_FreshCacheServed ==
    (inv.called /\ inv.fresh) =>
        /\ inv.http = 0
        /\ ~inv.raised
        /\ Serialize(inv.models) = inv.before.content
        /\ inv.cache = inv.before

\* C2: whenever the cache file exists it holds exactly the catalog of the
\* most recent successful remote fetch, and a run that failed left the
\* file as it was before that run.
C2_CacheIsLastFetch ==
    /\ cache.exists =>
          lastFetched.some /\ cache.content = Serialize(lastFetched.data)
    /\ (inv.called /\ inv.raised) =>
          /\ inv.cache.exists = inv.before.exists
          /\ inv.cache.content = inv.before.content

\* C3: a call of fetch_models that finds the cache file absent or 3600
\* seconds old or older issues exactly one GET; if the GET fails the run
\* ends with a non-zero status and prints no result, and what a successful
\* call returns is the catalog just fetched, never the stale content.
C3_StaleFetchesOnce ==
    (inv.called /\ ~inv.fresh) =>
        /\ inv.http = 1
        /\ inv.resp.kind # "ok" =>
              inv.raised /\ inv.exit # 0 /\ inv.lines = <<>>
                  /\ inv.results = <<>>
        /\ ~inv.raised => inv.resp.kind = "ok" /\ inv.models = inv.resp.data

\* A cache file with parseable content, exactly 3600 seconds old, was
\* there, the GET failed for a network reason, and the run ended with
\* status 1.
C3_Witness ==
    /\ inv.called /\ ~inv.fresh
    /\ inv.before.exists /\ Parse(inv.before.content).ok
    /\ now - inv.before.mtime = CACHE_TTL
    /\ inv.resp.kind = "network_error"
    /\ inv.exit = 1

\* C4: a run whose catalog fetch succeeds exits with status 0 exactly when
\* its mode produced at least one result; list mode (provider google when
\* none is given) with no model prints "No models found for provider" and
\* exits with 1, search mode without a match exits with 1, and a run
\* without arguments prints the usage message and exits with 1.
C4_ExitStatus ==
    /\ (inv.ran /\ inv.argv = <<>>) =>
          inv.exit = 1 /\ inv.out = "usage" /\ ~inv.called
    /\ (inv.ran /\ inv.called /\ ~inv.raised) =>
          /\ inv.exit \in {0, 1}
          /\ inv.exit = 0 <=> inv.results # <<>>
    /\ ListRun =>
          LET provider == IF Len(inv.argv) > 1 THEN inv.argv[2] ELSE Google
          IN  /\ \A i \in 1..Len(inv.models) :
                    StartsWith(inv.models[i].id, provider \o Slash)
                        => inv.results # <<>>
              /\ \A i \in 1..Len(inv.results) :
                    StartsWith(inv.results[i].id, provider \o Slash)
              /\ inv.results = <<>> => inv.exit = 1 /\ inv.out = "no_provider"
    /\ SearchRun =>
          (inv.results = <<>> => inv.exit = 1 /\ inv.out = "no_match")

\* List mode without a provider key found no google model in a fetched,
\* non-empty catalog and exited with 1.
C4_Witness ==
    /\ ListRun
    /\ inv.argv = <<ListFlag>>
    /\ inv.models # <<>>
    /\ inv.results = <<>>
    /\ inv.exit = 1

\* C10: every record search returns contains some query term in its id or
\* its name; so when no record of the catalog contains any term, the search
\* is empty and the run reports "No models found matching" with status 1,
\* whatever the creation timestamps are.
C10_ResultsMatchQuery ==
    SearchRun =>
        /\ \A i \in 1..Len(inv.results) :
              MatchesSomeTerm(inv.argv, inv.results[i])
        /\ (\A i \in 1..Len(inv.models) :
               ~MatchesSomeTerm(inv.argv, inv.models[i]))
              => inv.results = <<>> /\ inv.out = "no_match" /\ inv.exit = 1

----------------------------------------------------------------------------
(* to_native_id applied once and twice                                     *)

MaxSlugLen == 5

SlugChars == {"s", "3", ".", ":", "/"}

Slugs == UNION { [1..n -> SlugChars] : n \in 0..MaxSlugLen }

\* Well-formed identifiers provider/slug, for the provider that gets the
\* dash substitution and for one that does not.
InitNative ==
    /\ IdleCache /\ IdleRace /\ IdleMatch
    /\ idIn \in { prov \o Slash \o slug :
                    prov \in {Anthropic, Google}, slug \in Slugs }
    /\ idOut = <<>>

Translate ==
    /\ Len(idOut) = 0
    /\ idOut' = <<to_native_id(idIn)>>
    /\ UNCHANGED <<idIn, cacheVars, raceVars, matchVars>>

TranslateAgain ==
    /\ Len(idOut) = 1
    /\ idOut' = Append(idOut, to_native_id(idOut[1]))
    /\ UNCHANGED <<idIn, cacheVars, raceVars, matchVars>>

NextNative == Translate \/ TranslateAgain

SpecNative == InitNative /\ [][NextNative]_vars

\* The provider key and the slug of the identifier under translation.
InProvider == SubSeq(idIn, 1, FindFrom(idIn, "/", 1) - 1)
InSlug == SubSeq(idIn, FindFrom(idIn, "/", 1) + 1, Len(idIn))

\* s has a dot with a digit right before and right after it.
HasDottedDigits(s) ==
    \E i \in 2..(Len(s) - 1) :
        s[i] = "." /\ s[i - 1] \in Digits /\ s[i + 1] \in Digits

\* C5 as stated: applying to_native_id to its own result gives that result
\* again.
C5_Idempotent ==
    Len(idOut) = 2 => idOut[2] = idOut[1]

\* C5 amended: to_native_id yields a string for every identifier (its
\* characters are those of the input, or the dash), and the second
\* application reproduces the first result only when that result is the
\* empty string; on a result without "/" the second application yields
\* the empty string.
C5_IdempotentOnlyOnEmpty ==
    /\ Len(idOut) >= 1 =>
          \A i \in 1..Len(idOut[1]) : idOut[1][i] \in SlugChars \cup {"-"}
    /\ Len(idOut) = 2 =>
          /\ idOut[2] = idOut[1] <=> idOut[1] = <<>>
          /\ FindFrom(idOut[1], "/", 1) = 0 => idOut[2] = <<>>

\* An anthropic identifier whose translation is not empty and is changed
\* by a second application.
C5_Witness ==
    /\ Len(idOut) = 2
    /\ idIn = Anthropic \o Slash \o <<"s", "3", ".", "3", ":">>
    /\ idOut[1] = <<"s", "3", "-", "3">>
    /\ idOut[2] = <<>>

\* C6: for an anthropic identifier the result has no dot between two digits
\* and no colon; for any other provider the result is the text after the
\* first "/", unchanged.
C6_NoDottedVersion ==
    Len(idOut) >= 1 =>
        IF InProvider = Anthropic
        THEN ~HasDottedDigits(idOut[1]) /\ FindFrom(idOut[1], ":", 1) = 0
        ELSE idOut[1] = InSlug

----------------------------------------------------------------------------
(* search and list_provider on catalogs of up to MaxCatalog records        *)

MaxCatalog == 10

PosChar == <<"1", "2", "3", "4", "5", "6", "7", "8", "9", "0", "a", "b">>

\* The record put at position n of the catalog: one of two kinds, its id
\* made unique by the position, as the ids of a real catalog are.  The
\* first kind is newer at odd positions than at even ones; the second is a
\* free-tier variant without name or timestamp.
Template(k, n) ==
    IF k = 1
    THEN [id |-> Google \o Slash \o <<"g", "e", "m", PosChar[n]>>,
          name |-> <<"G", "e", "m", " ", "F", "l">>, created |-> 1 + (n % 2)]
    ELSE [id |-> <<"z", "z", "/", "f", "l", PosChar[n]>> \o FreeMarker,
          name |-> <<>>, created |-> 0]

Queries == { << <<"g", "e", "m">> >>, << <<"F", "l">> >>,
             << <<"w">>, <<"q">> >> }

ProviderKeys == { Google, <<"z", "z">>, <<"z">> }

InitMatch == IdleCache /\ IdleRace /\ IdleNative /\ IdleMatch

\* The catalog grows by one record.
AddModel ==
    /\ ~found.done
    /\ Len(catalog) < MaxCatalog
    /\ \E k \in 1..2 :
          catalog' = Append(catalog, Template(k, Len(catalog) + 1))
    /\ UNCHANGED <<query, found, cacheVars, raceVars, nativeVars>>

DoSearch ==
    /\ ~found.done
    /\ \E terms \in Queries :
          /\ query' = [mode |-> "search", terms |-> terms, provider |-> <<>>]
          /\ found' = [done |-> TRUE, results |-> search(terms, catalog)]
    /\ UNCHANGED <<catalog, cacheVars, raceVars, nativeVars>>

DoList ==
    /\ ~found.done
    /\ \E key \in ProviderKeys :
          /\ query' = [mode |-> "list", terms |-> <<>>, provider |-> key]
          /\ found' = [done |-> TRUE, results |-> list_provider(key, catalog)]
    /\ UNCHANGED <<catalog, cacheVars, raceVars, nativeVars>>

NextMatch == AddModel \/ DoSearch \/ DoList

SpecMatch == InitMatch /\ [][NextMatch]_vars

\* The scores of the records of a list, in order.
RECURSIVE Scores(_, _)
Scores(terms, models) ==
    IF models = <<>> THEN <<>>
    ELSE <<score_match(terms, Head(models))>> \o Scores(terms, Tail(models))

\* The position of record m in the catalog (ids are unique).
Pos(m) == CHOOSE i \in 1..Len(catalog) : catalog[i] = m

Returned(m) == \E k \in 1..Len(found.results) : found.results[k] = m

\* C7: search returns at most 8 records of the catalog, each with a score
\* above 0, in non-increasing score order with equal scores in catalog
\* order, and no record left out scores strictly higher than a returned
\* one.
C7_SearchTopEight ==
    (found.done /\ query.mode = "search") =>
        LET r == found.results
            rs == Scores(query.terms, r)
            cs == Scores(query.terms, catalog)
        IN  /\ Len(r) <= 8
            /\ \A k \in 1..Len(r) :
                  /\ \E i \in 1..Len(catalog) : catalog[i] = r[k]
                  /\ ScorePositive(rs[k])
            /\ \A k \in 1..Len(r) : \A l \in (k + 1)..Len(r) :
                  /\ ~ScoreGT(rs[l], rs[k])
                  /\ rs[l] = rs[k] => Pos(r[k]) < Pos(r[l])
            /\ \A i \in 1..Len(catalog) :
                  ~Returned(catalog[i]) =>
                      \A k \in 1..Len(r) : ~ScoreGT(cs[i], rs[k])

\* Nine records score above 0 and one does not: eight are returned, two
\* of them with equal scores, and a positive one is cut off.
C7_Witness ==
    /\ found.done /\ query.mode = "search"
    /\ Len(found.results) = 8
    /\ \E i \in 1..Len(catalog) :
          /\ ~Returned(catalog[i])
          /\ ScorePositive(score_match(query.terms, catalog[i]))
    /\ \E i \in 1..Len(catalog) :
          ~ScorePositive(score_match(query.terms, catalog[i]))
    /\ \E k \in 1..7 :
          score_match(query.terms, found.results[k])
              = score_match(query.terms, found.results[k + 1])
    /\ \E k \in 1..7 :
          ScoreGT(score_match(query.terms, found.results[k]),
                  score_match(query.terms, found.results[k + 1]))

\* C8: list_provider returns exactly the catalog records whose id starts
\* with the prefix of the key (the table entry of a known key, otherwise
\* the key followed by "/"), all of them and only them, in catalog order.
C8_ListProviderExact ==
    (found.done /\ query.mode = "list") =>
        LET r == found.results
            prefix == IF query.provider \in DOMAIN PROVIDER_PREFIXES
                      THEN PROVIDER_PREFIXES[query.provider]
                      ELSE query.provider \o <<"/">>
        IN  /\ \A k \in 1..Len(r) :
                  /\ \E i \in 1..Len(catalog) : catalog[i] = r[k]
                  /\ StartsWith(r[k].id, prefix)
            /\ \A i \in 1..Len(catalog) :
                  StartsWith(catalog[i].id, prefix) => Returned(catalog[i])
            /\ \A k \in 1..Len(r) : \A l \in (k + 1)..Len(r) :
                  Pos(r[k]) < Pos(r[l])

\* A key that is not in the table selects some records of the catalog and
\* not others.
C8_Witness ==
    /\ found.done /\ query.mode = "list"
    /\ query.provider = <<"z", "z">>
    /\ Len(found.results) >= 2
    /\ Len(found.results) < Len(catalog)

----------------------------------------------------------------------------
(* Two invocations that run at the same time against one cache file        *)

\* Tokens the buffered writer hands to one write() call.
BufferSize == 2

Hole == [t |-> "nul", m |-> NoModel]

RaceCatalogs == { <<NewN>>, <<GemFlash, Sonnet, FreeFl>> }

RaceResponses ==
    [kind : {"ok"}, data : RaceCatalogs]
    \cup [kind : FailureKinds, data : {<<>>}]

\* write() of chunk at offset o of a file opened without O_APPEND: the
\* bytes land at the offset of this open file, whatever the file holds,
\* and a gap left by someone else's truncation reads as zeros.
WriteAt(content, o, chunk) ==
    LET end == o + Len(chunk)
        n == IF Len(content) > end THEN Len(content) ELSE end
    IN  [i \in 1..n |->
            IF i > o /\ i <= end THEN chunk[i - o]
            ELSE IF i <= Len(content) THEN content[i]
            ELSE Hole]

\* What invocation p has still to write.
Pending(p) ==
    LET text == Serialize(pdata[p].data) IN SubSeq(text, off[p] + 1, Len(text))

\* The cache file is absent, or present and exactly CACHE_TTL seconds old.
InitRace ==
    /\ cache \in { NoCache,
                   [exists |-> TRUE, content |-> Serialize(<<OldQ>>),
                    mtime |-> 0] }
    /\ now = CACHE_TTL
    /\ ticks = 0
    /\ lastFetched = NoFetch
    /\ inv = NoRun
    /\ pc = [p \in Procs |-> "start"]
    /\ off = [p \in Procs |-> 0]
    /\ pdata = [p \in Procs |-> NoResponse]
    /\ lastWriter = 0
    /\ IdleNative /\ IdleMatch

\* Lines 43-47: the freshness test, and the read of a fresh file.
RaceCheck(p) ==
    /\ pc[p] = "start"
    /\ IF Fresh(cache, now)
       THEN LET r == Parse(cache.content) IN
            /\ pc' = [pc EXCEPT ![p] = IF r.ok THEN "hit" ELSE "failed"]
            /\ pdata' = [pdata EXCEPT ![p] = [kind |-> "cached",
                                              data |-> r.value]]
       ELSE /\ pc' = [pc EXCEPT ![p] = "get"]
            /\ UNCHANGED pdata
    /\ UNCHANGED <<cache, off, lastWriter>>
    /\ UNCHANGED <<now, ticks, lastFetched, inv, nativeVars, matchVars>>

\* Lines 49-51: the GET and the decoding of its body.
RaceGet(p) ==
    /\ pc[p] = "get"
    /\ \E resp \in RaceResponses :
          /\ pdata' = [pdata EXCEPT ![p] = resp]
          /\ pc' = [pc EXCEPT ![p] =
                       IF resp.kind \in {"ok", "no_data"} THEN "open"
                       ELSE "failed"]
    /\ UNCHANGED <<cache, off, lastWriter>>
    /\ UNCHANGED <<now, ticks, lastFetched, inv, nativeVars, matchVars>>

\* Line 53: open(CACHE_PATH, "w") creates or truncates the file; line 54
\* then raises when the body has no "data".
RaceOpen(p) ==
    /\ pc[p] = "open"
    /\ cache' = [exists |-> TRUE, content |-> <<>>, mtime |-> now]
    /\ off' = [off EXCEPT ![p] = 0]
    /\ pc' = [pc EXCEPT ![p] =
                 IF pdata[p].kind = "ok" THEN "write" ELSE "failed"]
    /\ UNCHANGED <<pdata, lastWriter>>
    /\ UNCHANGED <<now, ticks, lastFetched, inv, nativeVars, matchVars>>

\* Line 54: json.dump fills the buffer, which is written out when full.
RaceFlush(p) ==
    /\ pc[p] = "write"
    /\ Len(Pending(p)) > BufferSize
    /\ cache' = [cache EXCEPT
                    !.content = WriteAt(@, off[p],
                                        SubSeq(Pending(p), 1, BufferSize)),
                    !.mtime = now]
    /\ off' = [off EXCEPT ![p] = @ + BufferSize]
    /\ lastWriter' = p
    /\ UNCHANGED <<pc, pdata>>
    /\ UNCHANGED <<now, ticks, lastFetched, inv, nativeVars, matchVars>>

\* The end of the with block: the rest of the buffer is written and the
\* file is closed.
RaceClose(p) ==
    /\ pc[p] = "write"
    /\ Len(Pending(p)) <= BufferSize
    /\ cache' = [cache EXCEPT
                    !.content = WriteAt(@, off[p], Pending(p)),
                    !.mtime = now]
    /\ off' = [off EXCEPT ![p] = @ + Len(Pending(p))]
    /\ lastWriter' = p
    /\ pc' = [pc EXCEPT ![p] = "done"]
    /\ UNCHANGED pdata
    /\ UNCHANGED <<now, ticks, lastFetched, inv, nativeVars, matchVars>>

NextRace ==
    \E p \in Procs :
        \/ RaceCheck(p)
        \/ RaceGet(p)
        \/ RaceOpen(p)
        \/ RaceFlush(p)
        \/ RaceClose(p)

SpecRace == InitRace /\ [][NextRace]_vars

\* C9: when both invocations found the cache absent or stale, fetched and
\* wrote, the file they leave holds exactly the complete catalog of the
\* invocation that wrote last: it is not empty and not a mix.
C9_LastWriterWins ==
    (\A p \in Procs : pc[p] = "done") =>
        cache.content = Serialize(pdata[lastWriter].data)

====
